---- MODULE Spec2Model ----
(***************************************************************************)
(* Model of the MultiTrack synchronisation engine (multitrack.ts).         *)
(*                                                                         *)
(* Times are integers in units of 0.1 s (so the 0.3 s tolerance of         *)
(* updatePosition is 3 and a 10 s track lasts 100 units).  Playback rates  *)
(* are integers in hundredths (0.25 is 25, 5.0 is 500).  A drag delta is   *)
(* the fraction k / DeltaDen and a seek position the fraction k / SeekDen; *)
(* only fractions whose product with maxDuration is a whole number of      *)
(* units are drawn.  Array indexes are 1-based here, 0-based in the code.  *)
(***************************************************************************)
EXTENDS Integers, Sequences, FiniteSets, TLC

\* ---------------------------------------------------------------- bounds
\* At most this many scheduled animation frames (clock loops) are alive.
MaxLoops == 2
\* At most this many steps of free-running playback are observed in a run.
MaxAdvances == 1
\* At most this many addTrack loads are in flight at once.
MaxInFlight == 1

\* ------------------------------------------------------------- constants
precisionSeconds == 3
MinRate == 25
MaxRate == 500
\* One second, the slack of the lower drag bound when dragBounds is unset.
OneSecond == 10
\* Denominators of the drag deltas and of the seek fractions that are drawn.
DeltaDen == 3
SeekDen == 2

\* The value of an arithmetic expression over undefined (NaN), and an absent
\* optional field (undefined).  Both lie outside every time of the model.
NaN == -1000000
Absent == -2000000

IsNum(x) == x # NaN /\ x # Absent

\* x + y, x - y, x * k / d, Math.max, Math.abs and the comparisons of
\* JavaScript numbers: NaN propagates and every comparison with NaN is false.
Plus(x, y) == IF IsNum(x) /\ IsNum(y) THEN x + y ELSE NaN
Minus(x, y) == IF IsNum(x) /\ IsNum(y) THEN x - y ELSE NaN
Neg(x) == IF IsNum(x) THEN 0 - x ELSE NaN
Frac(k, den, x) == IF IsNum(x) THEN (k * x) \div den ELSE NaN
MathMax(x, y) == IF IsNum(x) /\ IsNum(y) THEN (IF x >= y THEN x ELSE y) ELSE NaN
MathAbs(x) == IF IsNum(x) THEN (IF x < 0 THEN 0 - x ELSE x) ELSE NaN
Lt(x, y) == IsNum(x) /\ IsNum(y) /\ x < y
Gt(x, y) == IsNum(x) /\ IsNum(y) /\ x > y
Le(x, y) == IsNum(x) /\ IsNum(y) /\ x <= y
Ge(x, y) == IsNum(x) /\ IsNum(y) /\ x >= y

\* Whether k / den of x is a whole number of units (NaN stays NaN).
Exact(k, den, x) == IsNum(x) => (k * x) % den = 0

\* -------------------------------------------------------- the track lists
PLACEHOLDER_TRACK ==
    [id |-> "placeholder", url |-> "ph", draggable |-> FALSE, startPosition |-> 0,
     startCue |-> Absent, endCue |-> Absent, optDuration |-> Absent,
     envelope |-> FALSE, fadeInEnd |-> Absent, fadeOutStart |-> Absent]

\* The tracks handed to the constructor: A (at 0 s, 10 s long, cues at 2 s and
\* 8 s) and B (at 5 s, 10 s long, draggable), both with an envelope that fades
\* in until 3 s and out from 7 s.
UserTracks ==
    << [id |-> "A", url |-> "a", draggable |-> FALSE, startPosition |-> 0,
        startCue |-> 20, endCue |-> 80, optDuration |-> Absent,
        envelope |-> TRUE, fadeInEnd |-> 30, fadeOutStart |-> 70],
       [id |-> "B", url |-> "b", draggable |-> TRUE, startPosition |-> 50,
        startCue |-> Absent, endCue |-> Absent, optDuration |-> Absent,
        envelope |-> TRUE, fadeInEnd |-> 30, fadeOutStart |-> 70] >>

\* The tracks handed to addTrack: B moved to 20 s, B replaced by a 5 s
\* resource at 0 s that is not draggable, a track whose id is not registered,
\* and A moved to 10 s; none has an envelope.
NewTracks ==
    << [id |-> "B", url |-> "b2", draggable |-> TRUE, startPosition |-> 200,
        startCue |-> Absent, endCue |-> Absent, optDuration |-> Absent,
        envelope |-> FALSE, fadeInEnd |-> Absent, fadeOutStart |-> Absent],
       [id |-> "B", url |-> "s", draggable |-> FALSE, startPosition |-> 0,
        startCue |-> Absent, endCue |-> Absent, optDuration |-> Absent,
        envelope |-> FALSE, fadeInEnd |-> Absent, fadeOutStart |-> Absent],
       [id |-> "X", url |-> "a", draggable |-> TRUE, startPosition |-> 0,
        startCue |-> Absent, endCue |-> Absent, optDuration |-> Absent,
        envelope |-> FALSE, fadeInEnd |-> Absent, fadeOutStart |-> Absent],
       [id |-> "A", url |-> "a", draggable |-> FALSE, startPosition |-> 100,
        startCue |-> Absent, endCue |-> Absent, optDuration |-> Absent,
        envelope |-> FALSE, fadeInEnd |-> Absent, fadeOutStart |-> Absent] >>

\* The duration the resource behind a url reports once its metadata is loaded;
\* the control track's player reports 0 until its duration is set.
MediaDuration(url) ==
    CASE url = "a" -> 100
      [] url = "b" -> 100
      [] url = "b2" -> 100
      [] url = "s" -> 50
      [] url = "ph" -> 0
      [] OTHER -> NaN

N == Len(UserTracks) + 1
Indexes == 1..N

\* An array slot that holds nothing (audios[index] is undefined).
Undefined == [undefined |-> TRUE]

\* new Audio() / new WebAudioPlayer() with its src set: paused, at 0.
NewAudio(url) ==
    [src |-> url, currentTime |-> 0, paused |-> TRUE, muted |-> FALSE,
     playbackRate |-> 100, duration |-> MediaDuration(url)]

VARIABLES
    tracks,        \* this.tracks
    audios,        \* this.audios
    durations,     \* this.durations
    currentTime,   \* this.currentTime
    maxDuration,   \* this.maxDuration
    frameRequest,  \* this.frameRequest (0 is null)
    scheduled,     \* handles of the animation frames requested and not yet run or cancelled
    dragBounds,    \* this.options.dragBounds
    loaded,        \* the constructor's initAllAudios().then(...) has run
    dragging,      \* indexes whose container has a drag handler (initDragging)
    inFlight,      \* addTrack loads whose then(...) has not run yet
    destroyed,     \* destroy() has been called
    advances,      \* steps of free-running playback observed so far
    last,          \* the operation that ran last, its arguments and what it found
    thrown,        \* whether that operation ended with an exception
    log,           \* what that operation wrote, called on the rendering and emitted, in order
    stalled,       \* the constructor's resources whose metadata never arrives
    metadata,      \* the constructor's resources that have reported their metadata
    orphans,       \* the resources that operation took out of this.audios, as it left them
    envelopes      \* the points of this.envelopes[index]; none where there is no envelope

vars == << tracks, audios, durations, currentTime, maxDuration, frameRequest,
           scheduled, dragBounds, loaded, dragging, inFlight, destroyed,
           advances, last, thrown, log, stalled, metadata, orphans, envelopes >>

\* The engine's fields as one value, so that a handler's calls compose.
Engine ==
    [tracks |-> tracks, audios |-> audios, durations |-> durations,
     currentTime |-> currentTime, maxDuration |-> maxDuration,
     frameRequest |-> frameRequest, scheduled |-> scheduled,
     dragging |-> dragging, thrown |-> FALSE, log |-> << >>, orphans |-> {}]

\* The fields after a handler has run.
Becomes(s) ==
    /\ tracks' = s.tracks
    /\ audios' = s.audios
    /\ durations' = s.durations
    /\ currentTime' = s.currentTime
    /\ maxDuration' = s.maxDuration
    /\ frameRequest' = s.frameRequest
    /\ scheduled' = s.scheduled
    /\ dragging' = s.dragging
    /\ thrown' = s.thrown
    /\ log' = s.log
    /\ orphans' = s.orphans

\* One entry of the log: a field written, a call on the rendering or an event.
Entry(call, id, arg) == [call |-> call, id |-> id, arg |-> arg]

Defined(au) == { i \in Indexes : au[i] # Undefined }

\* audios.length: one past the last slot that was ever assigned.
ArrayLength(au) == IF Defined(au) = {} THEN 0 ELSE CHOOSE i \in Defined(au) : \A j \in Defined(au) : j <= i

\* The first hole among the slots in S, or 0.
FirstHole(au, S) ==
    IF \A i \in S : au[i] # Undefined THEN 0
    ELSE CHOOSE i \in S : au[i] = Undefined /\ \A j \in S : au[j] = Undefined => i <= j

\* this.audios.some((audio) => !audio.paused); some() skips holes.
isPlaying(s) == \E i \in Defined(s.audios) : ~s.audios[i].paused

\* track.startCue || 0 and track.endCue || Infinity: a falsy cue takes the default.
CueOr0(c) == IF IsNum(c) /\ c # 0 THEN c ELSE 0
IsMutedAt(track, newTime) ==
    \/ Lt(newTime, CueOr0(track.startCue))
    \/ (IsNum(track.endCue) /\ track.endCue # 0 /\ Gt(newTime, track.endCue))

\* The test of updatePosition that pauses a resource, else it is played.
OutOfBounds(newTime, duration) == Lt(newTime, 0) \/ Gt(newTime, duration)

\* audio.currentTime = t: an HTMLAudioElement (new Audio()) seeks, and a seek
\* beyond the end of its media lands on the end; the control track's
\* WebAudioPlayer stores the value.
Sought(audio, t) ==
    IF audio.src # PLACEHOLDER_TRACK.url /\ Gt(t, audio.duration) THEN audio.duration ELSE t

\* An iteration that sets the clock whatever it is.
UpdateAudioAlways(audio, track, duration, time, isPaused) ==
    LET newTime == Minus(time, track.startPosition)
    IN  [audio EXCEPT
            !.currentTime = Sought(audio, MathMax(0, newTime)),
            !.paused = IF isPaused \/ OutOfBounds(newTime, duration) THEN TRUE ELSE FALSE,
            !.muted = IsMutedAt(track, newTime)]

\* An iteration that writes and calls whatever the resource's state is.
UpdateWritesAlways(audio, track, duration, time, isPaused) ==
    LET newTime == Minus(time, track.startPosition)
    IN  {"currentTime", "muted"}
            \cup (IF isPaused \/ OutOfBounds(newTime, duration) THEN {"pause"} ELSE {"play"})

\* What one iteration of updatePosition's loop does to the resource: the
\* assignment of currentTime, the call of pause() or of play(), the
\* assignment of muted.
UpdateWrites(audio, track, duration, time, isPaused) ==
    LET newTime == Minus(time, track.startPosition)
    IN  (IF Gt(MathAbs(Minus(audio.currentTime, newTime)), precisionSeconds)
         THEN {"currentTime"} ELSE {})
        \cup (IF isPaused \/ OutOfBounds(newTime, duration)
              THEN (IF ~audio.paused THEN {"pause"} ELSE {})
              ELSE (IF audio.paused THEN {"play"} ELSE {}))
        \cup (IF IsMutedAt(track, newTime) # audio.muted THEN {"muted"} ELSE {})

\* One iteration of updatePosition's loop over the tracks.
UpdateAudio(audio, track, duration, time, isPaused) ==
    LET newTime == Minus(time, track.startPosition)
        writes == UpdateWrites(audio, track, duration, time, isPaused)
    IN  [audio EXCEPT
            !.currentTime = IF "currentTime" \in writes THEN Sought(audio, MathMax(0, newTime)) ELSE @,
            !.paused = IF "pause" \in writes THEN TRUE ELSE IF "play" \in writes THEN FALSE ELSE @,
            !.muted = IF "muted" \in writes THEN IsMutedAt(track, newTime) ELSE @]

\* updatePosition(time, autoCenter): the loop reads audio.currentTime of every
\* track's slot and so ends with a TypeError at the first slot that holds nothing.
updatePositionCentered(s, time, autoCenter) ==
    LET isPaused == ~isPlaying(s)
        hole == FirstHole(s.audios, Indexes)
        done == IF hole = 0 THEN Indexes ELSE 1..(hole - 1)
    IN  [s EXCEPT
            !.currentTime = time,
            !.audios = [i \in Indexes |->
                          IF i \in done
                          THEN UpdateAudio(s.audios[i], s.tracks[i], s.durations[i], time, isPaused)
                          ELSE s.audios[i]],
            !.thrown = (hole # 0),
            !.log = @ \o << Entry("updatePosition", "", time) >>
                      \o (IF time # s.currentTime
                          THEN << Entry("updateCursor", IF autoCenter THEN "autoCenter" ELSE "", time) >>
                          ELSE << >>)]

\* updatePosition(time), autoCenter taking its default.
updatePosition(s, time) == updatePositionCentered(s, time, FALSE)

\* The reduce of initDurations over the tracks, from 0.
RECURSIVE MaxEnd(_, _, _)
MaxEnd(tr, du, n) ==
    IF n = 0 THEN 0 ELSE MathMax(MaxEnd(tr, du, n - 1), Plus(tr[n].startPosition, du[n]))

\* audios.findIndex((a) => a.src === PLACEHOLDER_TRACK.url): 0 when there is
\* none, -1 when a hole is visited first (a.src of undefined is a TypeError).
PlaceholderAudioIndex(au) ==
    LET hits == { i \in Defined(au) : au[i].src = PLACEHOLDER_TRACK.url }
        upTo == IF hits = {} THEN ArrayLength(au)
                ELSE CHOOSE i \in hits : \A j \in hits : i <= j
    IN  IF \E i \in 1..upTo : au[i] = Undefined THEN -1
        ELSE IF hits = {} THEN 0 ELSE upTo

\* initDurations that leaves the control track's duration alone.
initDurationsNoPlaceholder(s, du) ==
    LET max == MaxEnd(s.tracks, du, N)
    IN  IF PlaceholderAudioIndex(s.audios) = -1
        THEN [s EXCEPT !.durations = du, !.maxDuration = max, !.thrown = TRUE]
        ELSE [s EXCEPT !.durations = du, !.maxDuration = max,
                       !.log = @ \o << Entry("setMainWidth", "", max) >>]

\* initDurations(durations)
initDurations(s, du) ==
    LET max == MaxEnd(s.tracks, du, N)
        ph == PlaceholderAudioIndex(s.audios)
    IN  IF ph = -1
        THEN [s EXCEPT !.durations = du, !.maxDuration = max, !.thrown = TRUE]
        ELSE IF ph = 0
        THEN [s EXCEPT !.durations = du, !.maxDuration = max,
                       !.log = @ \o << Entry("setMainWidth", "", max) >>]
        ELSE [s EXCEPT !.durations = [du EXCEPT ![ph] = max],
                       !.maxDuration = max,
                       !.audios = [@ EXCEPT ![ph] = [@ EXCEPT !.duration = max]],
                       !.log = @ \o << Entry("setMainWidth", "", max) >>]

\* requestAnimationFrame(onFrame): a handle no pending frame has.
NewHandle(sch) == CHOOSE h \in 1..(Cardinality(sch) + 1) : h \notin sch

\* A reduce that takes the paused resources too.
RECURSIVE FramePositionAll(_, _)
FramePositionAll(s, n) ==
    IF n = 0 THEN s.currentTime
    ELSE LET pos == FramePositionAll(s, n - 1)
         IN  IF s.audios[n] # Undefined
             THEN MathMax(pos, Plus(s.audios[n].currentTime, s.tracks[n].startPosition))
             ELSE pos

\* The reduce of onFrame: the furthest position of a playing resource, from
\* this.currentTime; reduce() skips holes.
RECURSIVE FramePosition(_, _)
FramePosition(s, n) ==
    IF n = 0 THEN s.currentTime
    ELSE LET pos == FramePosition(s, n - 1)
         IN  IF s.audios[n] # Undefined /\ ~s.audios[n].paused
             THEN MathMax(pos, Plus(s.audios[n].currentTime, s.tracks[n].startPosition))
             ELSE pos

\* A frame that applies the furthest position among the playing resources
\* whatever the current position is.
onFrameUnguarded(s) ==
    LET position == FramePosition([s EXCEPT !.currentTime = 0], N)
        s1 == updatePositionCentered(s, position, TRUE)
        h == NewHandle(s1.scheduled)
    IN  IF s1.thrown THEN s1
        ELSE [s1 EXCEPT !.scheduled = @ \cup {h}, !.frameRequest = h]

\* The body of onFrame; an exception of updatePosition leaves no frame requested.
onFrame(s) ==
    LET position == FramePosition(s, N)
        s1 == IF Gt(position, s.currentTime) THEN updatePositionCentered(s, position, TRUE) ELSE s
        h == NewHandle(s1.scheduled)
    IN  IF s1.thrown THEN s1
        ELSE [s1 EXCEPT !.scheduled = @ \cup {h}, !.frameRequest = h]

\* startSync(): onFrame is called at once.
startSync(s) == onFrame(s)

\* The range test of findCurrentTracks.
IsCurrent(track, duration, time) ==
    /\ track.url # ""
    /\ Ge(time, track.startPosition)
    /\ Lt(time, Plus(track.startPosition, duration))

\* findCurrentTracks(): the tracks in range, else the first track that starts
\* where the earliest track with a url starts.
findCurrentTracks(s) ==
    LET inRange == { i \in Indexes : IsCurrent(s.tracks[i], s.durations[i], s.currentTime) }
        withUrl == { i \in Indexes : s.tracks[i].url # "" }
        minStartTime == CHOOSE m \in { s.tracks[i].startPosition : i \in withUrl } :
                            \A i \in withUrl : m <= s.tracks[i].startPosition
        first == CHOOSE i \in Indexes :
                    /\ s.tracks[i].startPosition = minStartTime
                    /\ \A j \in Indexes : s.tracks[j].startPosition = minStartTime => i <= j
    IN  IF inRange # {} THEN inRange ELSE {first}

\* play()
play(s) ==
    LET s1 == startSync(s)
        indexes == findCurrentTracks(s1)
    IN  IF s1.thrown THEN s1
        ELSE [s1 EXCEPT !.audios = [i \in Indexes |->
                 IF i \in indexes /\ @[i] # Undefined THEN [@[i] EXCEPT !.paused = FALSE] ELSE @[i]]]

\* A pause that stops the first resource only.
pauseFirstOnly(s) ==
    [s EXCEPT !.audios = [i \in Indexes |->
        IF i = 1 /\ @[i] # Undefined THEN [@[i] EXCEPT !.paused = TRUE] ELSE @[i]]]

\* pause()
pause(s) ==
    [s EXCEPT !.audios = [i \in Indexes |->
        IF @[i] # Undefined THEN [@[i] EXCEPT !.paused = TRUE] ELSE @[i]]]

\* A range check that also refuses the two bounds.
RateInvalidExclusive(rate) == rate <= MinRate \/ rate >= MaxRate

\* The range check of setAudioRate.
RateInvalid(rate) == rate < MinRate \/ rate > MaxRate

\* setAudioRate(rate)
setAudioRate(s, rate) ==
    IF RateInvalid(rate) THEN [s EXCEPT !.thrown = TRUE]
    ELSE [s EXCEPT !.audios = [i \in Indexes |->
            IF @[i] # Undefined THEN [@[i] EXCEPT !.playbackRate = rate] ELSE @[i]]]

\* A seek that does not resume playback.
setTimeNoResume(s, time) == updatePosition(s, time)

\* setTime(time); seekTo(position) is setTime(position * maxDuration).
setTime(s, time) ==
    LET wasPlaying == isPlaying(s)
        s1 == updatePosition(s, time)
    IN  IF s1.thrown \/ ~wasPlaying THEN s1 ELSE play(s1)

\* A seek that takes the fraction for a time in seconds.
seekToSeconds(s, k) == setTime(s, Frac(k, SeekDen, OneSecond))

seekTo(s, k) == setTime(s, Frac(k, SeekDen, s.maxDuration))

\* A lower bound that ignores dragBounds.
MinStartUnbounded(bounded, duration) == Minus(Neg(duration), OneSecond)

\* The bounds of a drag and its test.
MinStart(bounded, duration) == IF bounded THEN 0 ELSE Minus(Neg(duration), OneSecond)
MaxStart(max, duration) == Minus(max, duration)
\* A bounds test that refuses the two bounds.
InDragBoundsStrict(newStartPosition, minStart, maxStart) ==
    Gt(newStartPosition, minStart) /\ Lt(newStartPosition, maxStart)

InDragBounds(newStartPosition, minStart, maxStart) ==
    Ge(newStartPosition, minStart) /\ Le(newStartPosition, maxStart)

\* A drag that commits without applying the position again.
onDragNoApply(s, index, k, bounded) ==
    LET track == s.tracks[index]
        newStartPosition == Plus(track.startPosition, Frac(k, DeltaDen, s.maxDuration))
        s1 == [s EXCEPT !.tracks = [@ EXCEPT ![index] = [@ EXCEPT !.startPosition = newStartPosition]],
                        !.log = @ \o << Entry("startPosition", track.id, newStartPosition) >>]
        s2 == initDurations(s1, s1.durations)
    IN  IF ~track.draggable THEN s
        ELSE IF ~InDragBounds(newStartPosition, MinStart(bounded, s.durations[index]),
                              MaxStart(s.maxDuration, s.durations[index])) THEN s
        ELSE [s2 EXCEPT !.log = @ \o << Entry("setContainerOffsets", "", 0),
                                         Entry("start-position-change", track.id, newStartPosition) >>]

\* onDrag(index, delta) with delta = k / DeltaDen
onDrag(s, index, k, bounded) ==
    LET track == s.tracks[index]
        newStartPosition == Plus(track.startPosition, Frac(k, DeltaDen, s.maxDuration))
        minStart == MinStart(bounded, s.durations[index])
        maxStart == MaxStart(s.maxDuration, s.durations[index])
        s1 == [s EXCEPT !.tracks = [@ EXCEPT ![index] = [@ EXCEPT !.startPosition = newStartPosition]],
                        !.log = @ \o << Entry("startPosition", track.id, newStartPosition) >>]
        s2 == initDurations(s1, s1.durations)
        s3 == updatePosition([s2 EXCEPT !.log = @ \o << Entry("setContainerOffsets", "", 0) >>],
                             s2.currentTime)
    IN  IF ~track.draggable THEN s
        ELSE IF ~InDragBounds(newStartPosition, minStart, maxStart) THEN s
        ELSE IF s2.thrown THEN s2
        ELSE IF s3.thrown THEN s3
        ELSE [s3 EXCEPT !.log = @ \o << Entry("start-position-change", track.id, newStartPosition) >>]

\* A setter that commits whatever value it is given.
setTrackStartPositionUnchecked(s, index, value, bounded) ==
    IF index \notin Indexes THEN [s EXCEPT !.thrown = TRUE]
    ELSE IF ~s.tracks[index].draggable THEN s
    ELSE [s EXCEPT !.tracks = [@ EXCEPT ![index] = [@ EXCEPT !.startPosition = value]],
                   !.log = @ \o << Entry("startPosition", s.tracks[index].id, value) >>]

\* setTrackStartPosition(index, value): this.tracks[index] of an index outside
\* the array is undefined, and reading its draggable is a TypeError.
setTrackStartPosition(s, index, value, bounded) ==
    IF index \notin Indexes THEN [s EXCEPT !.thrown = TRUE]
    ELSE
    LET track == s.tracks[index]
        newStartPosition == value
        minStart == MinStart(bounded, s.durations[index])
        maxStart == MaxStart(s.maxDuration, s.durations[index])
        s1 == [s EXCEPT !.tracks = [@ EXCEPT ![index] = [@ EXCEPT !.startPosition = newStartPosition]],
                        !.log = @ \o << Entry("startPosition", track.id, newStartPosition) >>]
        s2 == initDurations(s1, s1.durations)
        s3 == updatePosition([s2 EXCEPT !.log = @ \o << Entry("setContainerOffsets", "", 0) >>],
                             s2.currentTime)
    IN  IF ~track.draggable THEN s
        ELSE IF ~InDragBounds(newStartPosition, minStart, maxStart) THEN s
        ELSE IF s2.thrown THEN s2
        ELSE IF s3.thrown THEN s3
        ELSE [s3 EXCEPT !.log = @ \o << Entry("start-position-change", track.id, newStartPosition) >>]

\* findIndex that falls on the first track when no id matches.
TrackIndexOrFirst(tr, id) ==
    IF \E i \in Indexes : tr[i].id = id
    THEN CHOOSE i \in Indexes : tr[i].id = id /\ \A j \in Indexes : tr[j].id = id => i <= j
    ELSE 1

\* addTrack(track): the synchronous part; the load of the new resource is in flight.
TrackIndex(tr, id) ==
    IF \E i \in Indexes : tr[i].id = id
    THEN CHOOSE i \in Indexes : tr[i].id = id /\ \A j \in Indexes : tr[j].id = id => i <= j
    ELSE 0

\* The duration addTrack stores for the loaded resource.
LoadedDuration(track, audio) ==
    IF IsNum(track.optDuration) THEN track.optDuration ELSE audio.duration

\* What is left of a resource that this.audios no longer holds.
Orphan(audio, paused) == [src |-> audio.src, paused |-> paused]

\* The then(...) of addTrack, run when the new resource has loaded.  Before the
\* constructor's load has completed this.wavesurfers is empty, and
\* this.wavesurfers[index].destroy() is a TypeError.  The engine itself does
\* nothing to the resource it replaces; whether destroying the old wavesurfer
\* pauses its media element is up to wavesurfer.js (stops).
addTrackLoaded(s, index, track, isLoaded, stops) ==
    LET audio == NewAudio(track.url)
        old == s.audios[index]
        left(paused) == IF old = Undefined THEN s.orphans
                        ELSE s.orphans \cup {Orphan(old, paused)}
        s1 == [s EXCEPT !.audios = [@ EXCEPT ![index] = audio],
                        !.durations = [@ EXCEPT ![index] = LoadedDuration(track, audio)],
                        !.orphans = left(old.paused)]
        s2 == initDurations(s1, s1.durations)
    IN  IF s2.thrown THEN s2
        ELSE IF ~isLoaded THEN [s2 EXCEPT !.thrown = TRUE]
        ELSE [s2 EXCEPT !.dragging = @ \cup {index},
                        !.orphans = left(old.paused \/ stops),
                        !.log = @ \o << Entry("canplay", "", 0) >>]

\* One point of an envelope.
Point(id, time, volume) == [id |-> id, time |-> time, volume |-> volume]

\* if (track.startCue): an absent cue and a cue of 0 are both falsy.
Truthy(x) == IsNum(x) /\ x # 0

\* The points initWavesurfer gives the envelope of a track; track.volume is
\* unset, so the fade points have volume 1.
EnvelopePoints(track) ==
    IF ~track.envelope THEN {}
    ELSE (IF Truthy(track.fadeInEnd)
          THEN (IF Truthy(track.startCue) THEN {Point("startCue", track.startCue, 0)} ELSE {})
                   \cup {Point("fadeInEnd", track.fadeInEnd, 1)}
          ELSE {})
         \cup (IF Truthy(track.fadeOutStart)
               THEN {Point("fadeOutStart", track.fadeOutStart, 1)}
                        \cup (IF Truthy(track.endCue) THEN {Point("endCue", track.endCue, 0)} ELSE {})
               ELSE {})

\* setPointTimeById(id, time) on the points of an envelope.
setPointTimeById(points, id, time) ==
    { IF p.id = id THEN [p EXCEPT !.time = time] ELSE p : p \in points }

\* The decode handler adds the two cue regions when either cue is set.
HasCueRegions(track) == track.startCue # Absent \/ track.endCue # Absent

\* destroy()
destroy(s) ==
    [s EXCEPT !.scheduled = IF s.frameRequest # 0 THEN @ \ {s.frameRequest} ELSE @,
              !.audios = [i \in Indexes |->
                  IF @[i] # Undefined THEN [@[i] EXCEPT !.paused = TRUE, !.src = ""] ELSE @[i]],
              !.dragging = {}]

\* The constructor's tracks: startPosition || 0, the control track appended.
InitialTracks ==
    [i \in Indexes |->
        LET t == IF i < N THEN UserTracks[i] ELSE PLACEHOLDER_TRACK
        IN  [t EXCEPT !.startPosition = IF IsNum(@) THEN @ ELSE 0]]

\* The then(...) of the constructor: initAllAudios() has resolved with the
\* resources created for the constructor's tracks.
loadComplete(s) ==
    LET au == [i \in Indexes |-> NewAudio(InitialTracks[i].url)]
        du == [i \in Indexes |-> IF au[i].src # "" THEN au[i].duration ELSE 0]
        s1 == initDurations([s EXCEPT !.audios = au], du)
    IN  [s1 EXCEPT !.dragging = { i \in 1..Len(UserTracks) : UserTracks[i].draggable },
                   !.log = @ \o << Entry("canplay", "", 0) >>]

\* ---------------------------------------------------------------- inputs
\* setTime arguments: a time before the origin.
Times == {-10}
\* seekTo fractions 0, 1/2 and 1, as numerators over SeekDen.
SeekNums == 0..SeekDen
\* Drag deltas -1/3 and 1/3, as numerators over DeltaDen.
DeltaNums == {-1, 1}
\* setAudioRate arguments around both ends of the valid range.
Rates == {24, 25, 500, 501}
\* setTrackStartPosition arguments: indexes in and past the registry, values
\* below, at and above the bounds.
SetterIndexes == 1..(N + 1)
StartValues == {-150, -110, 0, 50, 100}
\* The cues a track is constructed with: none, 0 s, 2 s and 8 s.
Cues == {Absent, 0, 20, 80}
\* Where the edge of a cue region is left after a resize: 0 s, 2 s and 8 s.
CueValues == Cues \ {Absent}
\* Steps of free-running playback: the tolerance itself and far beyond it.
Steps == {3, 40}
\* The tracks of NewTracks that addTrack is called with where B alone is
\* replaced, where A is moved while B is dragged, and where B is replaced
\* twice in a row.
BReplacements == {1, 2, 3}
MovingReplacements == {1, 4}
RacingReplacements == {1, 2}
\* The sets of constructor resources whose metadata never arrives: none, A's, B's.
StalledSets == {{}, {1}, {2}}

\* What an operation was called with and, for the operations whose result is
\* stated against it, what it found: the start position and duration of the
\* track a drag moves and the timeline's length, the position a tick or a seek
\* starts from, and whether the engine was playing.
Called(op, index, arg) ==
    [op |-> op, index |-> index, arg |-> arg,
     startPosition |-> IF op = "onDrag" \/ (op = "setTrackStartPosition" /\ index \in Indexes)
                       THEN tracks[index].startPosition ELSE 0,
     duration |-> IF op = "onDrag" THEN durations[index] ELSE 0,
     maxDuration |-> IF op = "onDrag" THEN maxDuration ELSE 0,
     currentTime |-> IF op \in {"tick", "seekTo", "setTime"} THEN currentTime ELSE 0,
     wasPlaying |-> IF op \in {"tick", "seekTo", "setTime", "onDrag"} THEN isPlaying(Engine) ELSE FALSE]

\* The resources whose promise initAudio resolves at once: those without a
\* source and the control track's.
Immediate ==
    { i \in Indexes : InitialTracks[i].url = "" \/ InitialTracks[i].id = PLACEHOLDER_TRACK.id }

\* The fields other than this.tracks when the constructor returns.
Constructed ==
    /\ audios = [i \in Indexes |-> Undefined]
    /\ durations = [i \in Indexes |-> NaN]
    /\ currentTime = 0
    /\ maxDuration = 0
    /\ frameRequest = 0
    /\ scheduled = {}
    /\ dragBounds \in BOOLEAN
    /\ loaded = FALSE
    /\ dragging = {}
    /\ inFlight = {}
    /\ destroyed = FALSE
    /\ advances = 0
    /\ last = Called("new", 0, 0)
    /\ thrown = FALSE
    /\ log = << >>
    /\ metadata = Immediate
    /\ orphans = {}
    /\ envelopes = [i \in Indexes |-> {}]

Init ==
    /\ tracks = InitialTracks
    /\ stalled = {}
    /\ Constructed

\* The constructor called with resources of which one may never report its
\* metadata.
InitLoad ==
    /\ tracks = InitialTracks
    /\ stalled \in StalledSets
    /\ Constructed

\* The constructor called with track B given any of the cue pairs.
InitCues ==
    /\ \E startCue \in Cues, endCue \in Cues :
          /\ (IsNum(startCue) /\ IsNum(endCue)) => startCue <= endCue
          /\ tracks = [InitialTracks EXCEPT ![2].startCue = startCue, ![2].endCue = endCue]
    /\ stalled = {}
    /\ Constructed

\* The last of the constructor's resources reports its metadata: Promise.all
\* resolves and the then(...) runs.
LoadComplete ==
    /\ ~loaded
    /\ stalled = {}
    /\ Becomes(loadComplete(Engine))
    /\ loaded' = TRUE
    /\ metadata' = Indexes
    /\ envelopes' = [i \in Indexes |-> EnvelopePoints(tracks[i])]
    /\ last' = Called("load", 0, 0)
    /\ UNCHANGED << dragBounds, inFlight, destroyed, advances, stalled >>

\* Promise.race in the place of Promise.all: one resource has reported.
AnyResolved(md) == \E i \in md : i \notin Immediate

\* Promise.all over the promises of initAudio: every one has resolved.
AllResolved(md) == md = Indexes

\* One of the constructor's resources reports its metadata (loadedmetadata):
\* its promise resolves, and with the last of them the then(...) runs.
LoadedMetadata(index) ==
    /\ ~loaded
    /\ index \notin metadata \cup stalled
    /\ metadata' = metadata \cup {index}
    /\ Becomes(IF AllResolved(metadata') THEN loadComplete(Engine) ELSE Engine)
    /\ loaded' = AllResolved(metadata')
    /\ last' = IF AllResolved(metadata') THEN Called("load", 0, 0)
                ELSE Called("loadedmetadata", index, 0)
    /\ envelopes' = IF AllResolved(metadata')
                    THEN [i \in Indexes |-> EnvelopePoints(tracks[i])]
                    ELSE envelopes
    /\ UNCHANGED << dragBounds, inFlight, destroyed, advances, stalled >>

Play ==
    /\ ~destroyed
    /\ Cardinality(scheduled) < MaxLoops
    /\ Becomes(play(Engine))
    /\ last' = Called("play", 0, 0)
    /\ UNCHANGED << dragBounds, loaded, inFlight, destroyed, advances, stalled, metadata, envelopes >>

Pause ==
    /\ ~destroyed
    /\ Becomes(pause(Engine))
    /\ last' = Called("pause", 0, 0)
    /\ UNCHANGED << dragBounds, loaded, inFlight, destroyed, advances, stalled, metadata, envelopes >>

SetTime(time) ==
    /\ ~destroyed
    /\ isPlaying(Engine) => Cardinality(scheduled) < MaxLoops
    /\ Becomes(setTime(Engine, time))
    /\ last' = Called("setTime", 0, time)
    /\ UNCHANGED << dragBounds, loaded, inFlight, destroyed, advances, stalled, metadata, envelopes >>

SeekTo(k) ==
    /\ ~destroyed
    /\ Exact(k, SeekDen, maxDuration)
    /\ isPlaying(Engine) => Cardinality(scheduled) < MaxLoops
    /\ Becomes(seekTo(Engine, k))
    /\ last' = Called("seekTo", 0, k)
    /\ UNCHANGED << dragBounds, loaded, inFlight, destroyed, advances, stalled, metadata, envelopes >>

SetAudioRate(rate) ==
    /\ ~destroyed
    /\ Becomes(setAudioRate(Engine, rate))
    /\ last' = Called("setAudioRate", 0, rate)
    /\ UNCHANGED << dragBounds, loaded, inFlight, destroyed, advances, stalled, metadata, envelopes >>

OnDrag(index, k) ==
    /\ ~destroyed
    /\ index \in dragging
    /\ Exact(k, DeltaDen, maxDuration)
    /\ Becomes(onDrag(Engine, index, k, dragBounds))
    /\ last' = Called("onDrag", index, k)
    /\ UNCHANGED << dragBounds, loaded, inFlight, destroyed, advances, stalled, metadata, envelopes >>

SetTrackStartPosition(index, value) ==
    /\ ~destroyed
    /\ Becomes(setTrackStartPosition(Engine, index, value, dragBounds))
    /\ last' = Called("setTrackStartPosition", index, value)
    /\ UNCHANGED << dragBounds, loaded, inFlight, destroyed, advances, stalled, metadata, envelopes >>

\* addTrack(track) called while fewer than limit loads are in flight.
AddTrackWithin(n, limit) ==
    LET track == NewTracks[n]
        index == TrackIndex(tracks, track.id)
    IN  /\ ~destroyed
        /\ Cardinality(inFlight) < limit
        /\ IF index = 0
           THEN UNCHANGED << tracks, inFlight >>
           ELSE /\ tracks' = [tracks EXCEPT ![index] = track]
                /\ inFlight' = inFlight \cup {[index |-> index, track |-> track]}
        /\ last' = Called("addTrack", index, n)
        /\ thrown' = FALSE
        /\ log' = << >>
        /\ orphans' = {}
        /\ UNCHANGED << audios, durations, currentTime, maxDuration, frameRequest,
                        scheduled, dragBounds, loaded, dragging, destroyed, advances,
                        stalled, metadata, envelopes >>

AddTrack(n) == AddTrackWithin(n, MaxInFlight)

AddTrackLoaded(load, stops) ==
    /\ Becomes(addTrackLoaded(Engine, load.index, load.track, loaded, stops))
    /\ inFlight' = inFlight \ {load}
    /\ last' = Called("addTrackLoaded", load.index, 0)
    /\ envelopes' = IF ~thrown' /\ load.track.envelope
                    THEN [envelopes EXCEPT ![load.index] = EnvelopePoints(load.track)]
                    ELSE envelopes
    /\ UNCHANGED << dragBounds, loaded, destroyed, advances, stalled, metadata >>

\* The start cue region of a track has been resized ('update-end'): the cue
\* is written to the track, start-cue-change is emitted and the envelope's
\* listener moves its point.  The regions belong to the track object the
\* wavesurfer was created for, which is this.tracks[index] unless a
\* replacement is in flight.
StartCueUpdateEnd(index, value) ==
    /\ loaded
    /\ ~destroyed
    /\ \A load \in inFlight : load.index # index
    /\ HasCueRegions(tracks[index])
    /\ tracks' = [tracks EXCEPT ![index] = [@ EXCEPT !.startCue = value]]
    /\ envelopes' = IF tracks[index].envelope
                    THEN [envelopes EXCEPT ![index] = setPointTimeById(@, "startCue", value)]
                    ELSE envelopes
    /\ log' = << Entry("start-cue-change", tracks[index].id, value) >>
    /\ last' = Called("start-cue-change", index, value)
    /\ thrown' = FALSE
    /\ orphans' = {}
    /\ UNCHANGED << audios, durations, currentTime, maxDuration, frameRequest,
                    scheduled, dragBounds, loaded, dragging, inFlight, destroyed,
                    advances, stalled, metadata >>

\* The same for the end cue region.
EndCueUpdateEnd(index, value) ==
    /\ loaded
    /\ ~destroyed
    /\ \A load \in inFlight : load.index # index
    /\ HasCueRegions(tracks[index])
    /\ tracks' = [tracks EXCEPT ![index] = [@ EXCEPT !.endCue = value]]
    /\ envelopes' = IF tracks[index].envelope
                    THEN [envelopes EXCEPT ![index] = setPointTimeById(@, "endCue", value)]
                    ELSE envelopes
    /\ log' = << Entry("end-cue-change", tracks[index].id, value) >>
    /\ last' = Called("end-cue-change", index, value)
    /\ thrown' = FALSE
    /\ orphans' = {}
    /\ UNCHANGED << audios, durations, currentTime, maxDuration, frameRequest,
                    scheduled, dragBounds, loaded, dragging, inFlight, destroyed,
                    advances, stalled, metadata >>

Destroy ==
    /\ ~destroyed
    /\ Becomes(destroy(Engine))
    /\ destroyed' = TRUE
    /\ last' = Called("destroy", 0, 0)
    /\ UNCHANGED << dragBounds, loaded, inFlight, advances, stalled, metadata, envelopes >>

\* A requested animation frame runs onFrame.
Tick(h) ==
    /\ Becomes(onFrame([Engine EXCEPT !.scheduled = @ \ {h}]))
    /\ last' = Called("tick", 0, h)
    /\ UNCHANGED << dragBounds, loaded, inFlight, destroyed, advances, stalled, metadata, envelopes >>

\* A playing resource runs on by itself, up to its end.
Advance(index, step) ==
    /\ advances < MaxAdvances
    /\ audios[index] # Undefined
    /\ ~audios[index].paused
    /\ Lt(audios[index].currentTime, audios[index].duration)
    /\ audios' = [audios EXCEPT ![index] = [@ EXCEPT !.currentTime =
                    IF @ + step > audios[index].duration THEN audios[index].duration ELSE @ + step]]
    /\ advances' = advances + 1
    /\ last' = Called("advance", index, step)
    /\ thrown' = FALSE
    /\ log' = << >>
    /\ orphans' = {}
    /\ UNCHANGED << tracks, durations, currentTime, maxDuration, frameRequest,
                    scheduled, dragBounds, loaded, dragging, inFlight, destroyed,
                    stalled, metadata, envelopes >>

\* A resource that has played to its end pauses itself.
Ended(index) ==
    /\ audios[index] # Undefined
    /\ ~audios[index].paused
    /\ Ge(audios[index].currentTime, audios[index].duration)
    /\ audios' = [audios EXCEPT ![index] = [@ EXCEPT !.paused = TRUE]]
    /\ last' = Called("ended", index, 0)
    /\ thrown' = FALSE
    /\ log' = << >>
    /\ orphans' = {}
    /\ UNCHANGED << tracks, durations, currentTime, maxDuration, frameRequest,
                    scheduled, dragBounds, loaded, dragging, inFlight, destroyed,
                    advances, stalled, metadata, envelopes >>

Next ==
    \/ LoadComplete
    \/ Play
    \/ Pause
    \/ \E time \in Times : SetTime(time)
    \/ \E k \in SeekNums : SeekTo(k)
    \/ \E rate \in Rates : SetAudioRate(rate)
    \/ \E index \in Indexes, k \in DeltaNums : OnDrag(index, k)
    \/ \E index \in SetterIndexes, value \in StartValues : SetTrackStartPosition(index, value)
    \/ \E n \in 1..Len(NewTracks) : AddTrack(n)
    \/ \E load \in inFlight, stops \in BOOLEAN : AddTrackLoaded(load, stops)
    \/ \E index \in Indexes, value \in CueValues : StartCueUpdateEnd(index, value)
    \/ \E index \in Indexes, value \in CueValues : EndCueUpdateEnd(index, value)
    \/ Destroy
    \/ \E h \in scheduled : Tick(h)
    \/ \E index \in Indexes, step \in Steps : Advance(index, step)
    \/ \E index \in Indexes : Ended(index)

Spec == Init /\ [][Next]_vars

\* The engine under playback, seeking and dragging, with the registry and the
\* playback rate left alone.
NextPlayback ==
    \/ LoadComplete
    \/ Play
    \/ Pause
    \/ \E time \in Times : SetTime(time)
    \/ \E k \in SeekNums : SeekTo(k)
    \/ \E index \in Indexes, k \in DeltaNums : OnDrag(index, k)
    \/ Destroy
    \/ \E h \in scheduled : Tick(h)
    \/ \E index \in Indexes, step \in Steps : Advance(index, step)
    \/ \E index \in Indexes : Ended(index)

SpecPlayback == Init /\ [][NextPlayback]_vars

\* The engine under rate changes, with tracks replaced and playback started
\* and stopped.
NextRate ==
    \/ LoadComplete
    \/ Play
    \/ Pause
    \/ \E rate \in Rates : SetAudioRate(rate)
    \/ \E n \in BReplacements : AddTrack(n)
    \/ \E load \in inFlight, stops \in BOOLEAN : AddTrackLoaded(load, stops)
    \/ Destroy

SpecRate == Init /\ [][NextRate]_vars

\* The engine under seeks, paused and playing, for every pair of cues of B.
NextCues ==
    \/ LoadComplete
    \/ Play
    \/ Pause
    \/ \E time \in Times : SetTime(time)
    \/ \E k \in SeekNums : SeekTo(k)

SpecCues == InitCues /\ [][NextCues]_vars

\* The engine under drags and setTrackStartPosition, paused and playing.
NextDrag ==
    \/ LoadComplete
    \/ Play
    \/ Pause
    \/ \E k \in SeekNums : SeekTo(k)
    \/ \E index \in Indexes, k \in DeltaNums : OnDrag(index, k)
    \/ \E index \in SetterIndexes, value \in StartValues : SetTrackStartPosition(index, value)

SpecDrag == Init /\ [][NextDrag]_vars

\* The engine with tracks replaced while it plays, seeks and is dragged.
NextTracks ==
    \/ LoadComplete
    \/ Play
    \/ \E k \in SeekNums : SeekTo(k)
    \/ \E index \in Indexes, k \in DeltaNums : OnDrag(index, k)
    \/ \E n \in BReplacements : AddTrack(n)
    \/ \E load \in inFlight, stops \in BOOLEAN : AddTrackLoaded(load, stops)

SpecTracks == Init /\ [][NextTracks]_vars

\* The engine from the constructor on, its resources reporting one by one or
\* not at all, with playback started and stopped and tracks replaced.
NextLoad ==
    \/ \E index \in Indexes : LoadedMetadata(index)
    \/ Play
    \/ Pause
    \/ \E n \in BReplacements : AddTrack(n)
    \/ \E load \in inFlight, stops \in BOOLEAN : AddTrackLoaded(load, stops)
    \/ \E h \in scheduled : Tick(h)

SpecLoad == InitLoad /\ [][NextLoad]_vars

\* The engine dragged while tracks are moved by replacement.
NextMove ==
    \/ LoadComplete
    \/ Play
    \/ \E index \in Indexes, k \in DeltaNums : OnDrag(index, k)
    \/ \E n \in MovingReplacements : AddTrack(n)
    \/ \E load \in inFlight, stops \in BOOLEAN : AddTrackLoaded(load, stops)

SpecMove == Init /\ [][NextMove]_vars

\* The engine with B replaced again while the load of a replacement is still
\* in flight, the loads completing in any order.
NextRace ==
    \/ LoadComplete
    \/ Play
    \/ \E n \in RacingReplacements : AddTrackWithin(n, MaxInFlight + 1)
    \/ \E load \in inFlight, stops \in BOOLEAN : AddTrackLoaded(load, stops)

SpecRace == Init /\ [][NextRace]_vars

\* The engine with the cue regions of its tracks resized, for every pair of
\* cues of B.
NextEnvelope ==
    \/ LoadComplete
    \/ \E index \in Indexes, value \in CueValues : StartCueUpdateEnd(index, value)
    \/ \E index \in Indexes, value \in CueValues : EndCueUpdateEnd(index, value)

SpecEnvelope == InitCues /\ [][NextEnvelope]_vars

\* ------------------------------------------------------------------ claims
\* The user-registered tracks: every track but the control track.
UserIndexes == 1..(N - 1)

\* max(startPosition_i + duration_i) over the user-registered tracks, 0 if none.
UserMaxEnd ==
    IF UserIndexes = {} THEN 0
    ELSE LET ends == { tracks[i].startPosition + durations[i] : i \in UserIndexes }
             top == CHOOSE e \in ends : \A f \in ends : f <= e
         IN  IF top > 0 THEN top ELSE 0

\* The local time of track i at the global position.
LocalTime(i) == currentTime - tracks[i].startPosition

\* A track is in range iff 0 <= localTime < duration.
InRange(i) == 0 <= LocalTime(i) /\ LocalTime(i) < durations[i]

\* C1: a drag of a draggable track whose proposed start,
\* startPosition + delta * maxDuration, lies in [minStart, maxStart] (bounds
\* included) sets startPosition exactly to the proposed start; any other drag
\* leaves startPosition as it was.
DragAllOrNothing ==
    (last.op = "onDrag" /\ tracks[last.index].draggable) =>
        LET proposed == last.startPosition + (last.arg * last.maxDuration) \div DeltaDen
            minStart == IF dragBounds THEN 0 ELSE 0 - last.duration - 10
            maxStart == last.maxDuration - last.duration
        IN  IF minStart <= proposed /\ proposed <= maxStart
            THEN tracks[last.index].startPosition = proposed
            ELSE tracks[last.index].startPosition = last.startPosition

\* C1 witness: with dragBounds set, a 10 s track at 0 s dragged by -1/3 of a
\* 15 s timeline (to -5 s) has been rejected and is still at 0 s.
DragRejectedAtOrigin ==
    /\ last.op = "onDrag"
    /\ last.arg = -1
    /\ dragBounds
    /\ last.maxDuration = 150
    /\ last.duration = 100
    /\ last.startPosition = 0
    /\ tracks[last.index].startPosition = 0

\* C2: once loaded and with no replacement in flight, maxDuration is the
\* maximum of startPosition + duration over the user-registered tracks.
MaxDurationIsUserMaxEnd ==
    (loaded /\ inFlight = {} /\ ~thrown) => maxDuration = UserMaxEnd

\* C3: when pause() returns on a loaded engine no animation frame is left
\* scheduled.
PauseCancelsFrame ==
    (loaded /\ last.op = "pause") => scheduled = {}

\* C4: when destroy() returns on a loaded engine every resource is paused and
\* detached and no animation frame is left scheduled.
DestroyStopsEverything ==
    (loaded /\ last.op = "destroy") =>
        /\ scheduled = {}
        /\ \A i \in Defined(audios) : audios[i].paused /\ audios[i].src = ""

\* C5: no step other than a seek (seekTo, setTime) decreases the global
\* position; so the position after a tick is at least the position after any
\* earlier tick with no seek in between, whatever ran in between.
PositionDecreasesOnlyBySeek ==
    [][last'.op \notin {"seekTo", "setTime"} => currentTime' >= currentTime]_vars

\* C5 witness: a tick has moved the position forward.
TickAdvanced ==
    last.op = "tick" /\ currentTime > last.currentTime

\* C6: on a loaded engine the global position is not negative when a seek
\* (setTime, seekTo), a tick or a drag has completed.
PositionNonNegative ==
    (loaded /\ ~thrown /\ last.op \in {"setTime", "seekTo", "tick", "onDrag"}) =>
        currentTime >= 0

\* C7: setAudioRate(rate) with rate outside [0.25, 5.0] throws and changes no
\* playbackRate; with rate inside (bounds included) it does not throw and every
\* resource has playbackRate = rate.
SetAudioRateAllOrNothing ==
    [][last'.op = "setAudioRate" =>
        IF last'.arg < 25 \/ last'.arg > 500
        THEN thrown' /\ audios' = audios
        ELSE ~thrown' /\ \A i \in Defined(audios') : audios'[i].playbackRate = last'.arg]_vars

\* C7 witness: setAudioRate(5.0) has set the rate of all three resources.
RateSetAtUpperBound ==
    /\ last.op = "setAudioRate"
    /\ last.arg = 500
    /\ ~thrown
    /\ Defined(audios) = Indexes
    /\ \A i \in Indexes : audios[i].playbackRate = 500

\* C8 as stated: when seekTo(fraction) returns the global position is
\* fraction * maxDuration.
SeekToSetsExactPosition ==
    (last.op = "seekTo" /\ ~thrown) =>
        currentTime = (last.arg * maxDuration) \div SeekDen

\* C8 amended: when seekTo(fraction) returns the global position is
\* fraction * maxDuration if nothing was playing, and between that and 0.3 s
\* more if the engine was playing; the clock of every track in range is within
\* 0.3 s of its local time, position - startPosition.
SeekToSetsPositionWithinTolerance ==
    (last.op = "seekTo" /\ ~thrown) =>
        LET target == (last.arg * maxDuration) \div SeekDen
        IN  /\ ~last.wasPlaying => currentTime = target
            /\ target <= currentTime /\ currentTime <= target + 3
            /\ \A i \in Indexes :
                  InRange(i) => /\ audios[i].currentTime - LocalTime(i) <= 3
                                /\ LocalTime(i) - audios[i].currentTime <= 3

\* C8 witness: tracks A (0 s, 10 s) and B (5 s, 10 s), seekTo(0.5) while
\* paused: the position is 7.5 s, A is at 7.5 s and B at 2.5 s.
SeekToHalf ==
    /\ last.op = "seekTo"
    /\ last.arg = 1
    /\ ~last.wasPlaying
    /\ ~thrown
    /\ maxDuration = 150
    /\ tracks[2].startPosition = 50
    /\ currentTime = 75
    /\ audios[1].currentTime = 75
    /\ audios[2].currentTime = 25

\* C9: when updatePosition has been the last thing to run (a tick that moved
\* the position, a committed drag, a seek while paused), the resource of a
\* user track is playing iff the engine was playing and the track is in range.
PlayingIffActiveAndInRange ==
    (/\ ~thrown
     /\ \/ last.op = "tick" /\ currentTime > last.currentTime
        \/ last.op = "onDrag" /\ tracks[last.index].startPosition # last.startPosition
        \/ last.op \in {"seekTo", "setTime"} /\ ~last.wasPlaying) =>
        \A i \in UserIndexes : ~audios[i].paused <=> (last.wasPlaying /\ InRange(i))

\* C10: at a position that is not negative, a user track whose resource is
\* playing is in range.
PlayingOnlyInRange ==
    currentTime >= 0 =>
        \A i \in UserIndexes \cap Defined(audios) : ~audios[i].paused => InRange(i)

\* C11: when a seek has applied the position, every resource is muted iff its
\* local time is before the start cue (0 if absent) or after the end cue (never
\* if absent); a cue that is present and 0 is taken as 0.
MutedIffOutsideCues ==
    (last.op \in {"setTime", "seekTo"} /\ ~thrown) =>
        \A i \in Indexes :
            LET startCue == IF tracks[i].startCue = Absent THEN 0 ELSE tracks[i].startCue
            IN  audios[i].muted <=>
                    \/ LocalTime(i) < startCue
                    \/ tracks[i].endCue # Absent /\ LocalTime(i) > tracks[i].endCue

\* C12: when a seek has applied the position and left a track unmuted, the
\* track would also be unmuted at that local time with any later end cue, and
\* with any earlier start cue.
UnmutedStaysUnmuted ==
    (last.op \in {"setTime", "seekTo"} /\ ~thrown) =>
        \A i \in Indexes, cue \in Cues \ {Absent} :
            ~audios[i].muted =>
                /\ (IsNum(tracks[i].endCue) /\ cue >= tracks[i].endCue) =>
                        ~IsMutedAt([tracks[i] EXCEPT !.endCue = cue], LocalTime(i))
                /\ (IsNum(tracks[i].startCue) /\ cue <= tracks[i].startCue) =>
                        ~IsMutedAt([tracks[i] EXCEPT !.startCue = cue], LocalTime(i))

\* C13: on a loaded engine setTrackStartPosition with an index outside the
\* registry raises no error.
UnknownIndexIsNoOp ==
    (loaded /\ last.op = "setTrackStartPosition" /\ last.index \notin Indexes) => ~thrown

\* C19: a drag of a draggable track to a start within the bounds writes the
\* start position, recomputes maxDuration, refreshes the layout offsets,
\* applies the unchanged global position and then emits start-position-change
\* once, in this order; any other drag does none of these and changes nothing.
DragCommitsInOrder ==
    [][last'.op = "onDrag" =>
        LET i == last'.index
            track == tracks[i]
            proposed == track.startPosition + (last'.arg * maxDuration) \div DeltaDen
            minStart == IF dragBounds THEN 0 ELSE 0 - durations[i] - 10
            maxStart == maxDuration - durations[i]
        IN  IF track.draggable /\ minStart <= proposed /\ proposed <= maxStart
            THEN /\ log' = << Entry("startPosition", track.id, proposed),
                              Entry("setMainWidth", "", maxDuration'),
                              Entry("setContainerOffsets", "", 0),
                              Entry("updatePosition", "", currentTime),
                              Entry("start-position-change", track.id, proposed) >>
                 /\ tracks'[i].startPosition = proposed
                 /\ currentTime' = currentTime
            ELSE /\ log' = << >>
                 /\ UNCHANGED << tracks, audios, durations, currentTime, maxDuration >>]_vars

\* C19 witness: a drag has been committed while playing.
DragCommittedWhilePlaying ==
    /\ last.op = "onDrag"
    /\ last.wasPlaying
    /\ tracks[last.index].startPosition # last.startPosition
    /\ Len(log) = 5
    /\ log[5].call = "start-position-change"

\* C20: in every state, setTrackStartPosition(index, value) with
\* value = startPosition + delta * maxDuration gives the state and the events
\* that onDrag(index, delta) gives.
SetterEqualsDrag ==
    \A index \in Indexes, k \in DeltaNums \cup {0} :
        Exact(k, DeltaDen, maxDuration) =>
            setTrackStartPosition(Engine, index,
                Plus(tracks[index].startPosition, Frac(k, DeltaDen, maxDuration)), dragBounds)
              = onDrag(Engine, index, k, dragBounds)

\* C20 witness: setTrackStartPosition has moved a track and emitted the event.
SetterCommitted ==
    /\ last.op = "setTrackStartPosition"
    /\ last.index \in Indexes
    /\ tracks[last.index].startPosition = last.arg
    /\ last.arg # last.startPosition
    /\ Len(log) = 5
    /\ log[5] = Entry("start-position-change", tracks[last.index].id, last.arg)

OldResourceReleased ==
    (last.op = "addTrackLoaded" /\ ~thrown) =>
        \A o \in orphans : o.paused /\ o.src = ""

\* C16: a public operation called before the constructor's resources have
\* loaded raises no error (play, pause, seekTo, setTime and destroy; setAudioRate
\* raises by contract on a rate out of range, and setTrackStartPosition is the
\* subject of C13).
CallsBeforeLoadRaiseNoError ==
    (~loaded /\ last.op \in {"play", "pause", "seekTo", "setTime", "destroy"}) => ~thrown

\* C17: a resource that never reports its metadata does not keep the engine
\* from initializing: once every other resource has reported, the then(...) of
\* the constructor has run (canplay is emitted, the tracks can be played).
OthersFinishInitialization ==
    (metadata \cup stalled = Indexes) => loaded

\* The number of canplay events an operation has emitted.
CanplayCount(lg) == Cardinality({ k \in 1..Len(lg) : lg[k].call = "canplay" })

\* C18: canplay is emitted once by the step that completes the initial load,
\* once by each completed replacement of addTrack, and by no other step; when
\* it is emitted every initial resource has reported its metadata, every user
\* track has a duration, maxDuration covers every user track and the control
\* track's duration is maxDuration.
CanplayOnlyWhenReady ==
    [][ LET n == CanplayCount(log')
            initial == ~loaded /\ loaded'
            replaced == last'.op = "addTrackLoaded" /\ ~thrown'
        IN  /\ n = IF initial \/ replaced THEN 1 ELSE 0
            /\ n > 0 =>
                /\ metadata' = Indexes
                /\ \A i \in UserIndexes :
                        /\ IsNum(durations'[i])
                        /\ Ge(maxDuration', Plus(tracks'[i].startPosition, durations'[i]))
                /\ durations'[N] = maxDuration'
      ]_vars

\* The resources have reported one by one, canplay was emitted, and a
\* replacement of B has completed and emitted canplay once more.
CanplayAfterReplacement ==
    /\ last.op = "addTrackLoaded"
    /\ ~thrown
    /\ loaded
    /\ metadata = Indexes
    /\ CanplayCount(log) = 1
    /\ audios[2].src = "b2"

\* C21: with dragBounds unset, a draggable track starts no earlier than its
\* duration plus one second before the origin, and some part of it lies at or
\* after the origin.
DraggedTrackStaysVisible ==
    (loaded /\ ~dragBounds) =>
        \A i \in UserIndexes :
            tracks[i].draggable =>
                /\ tracks[i].startPosition >= 0 - durations[i] - OneSecond
                /\ tracks[i].startPosition + durations[i] >= 0

\* Whether the operation that ran last committed a start position.
Committed(lg) == \E k \in 1..Len(lg) : lg[k].call = "start-position-change"

\* C22: with dragBounds set, a start position committed by a drag or by
\* setTrackStartPosition is at or after the origin and leaves the track's end
\* within the maxDuration in force before the commit.
CommitWithinBounds ==
    [][ (dragBounds /\ last'.op \in {"onDrag", "setTrackStartPosition"} /\ Committed(log')) =>
            LET i == last'.index
            IN  /\ tracks'[i].startPosition >= 0
                /\ tracks'[i].startPosition + durations[i] <= maxDuration
      ]_vars

\* With dragBounds set, B has been dragged from 5 s onto the origin.
DraggedOntoOrigin ==
    /\ dragBounds
    /\ last.op = "onDrag"
    /\ Committed(log)
    /\ last.startPosition = 50
    /\ tracks[last.index].startPosition = 0

\* C23: once the initial load has completed, the control track's duration, in
\* this.durations and on its player, equals maxDuration.
ControlTrackSpansTimeline ==
    loaded => (durations[N] = maxDuration /\ audios[N].duration = maxDuration)

\* A replacement of B that starts at 20 s has lengthened the timeline to 30 s,
\* and the control track with it.
ControlTrackLengthened ==
    /\ loaded
    /\ last.op = "addTrackLoaded"
    /\ ~thrown
    /\ maxDuration = 300
    /\ durations[N] = 300
    /\ audios[N].duration = 300

\* C24: a drag or a seek after the initial load runs against a maxDuration that
\* corresponds to the registry's tracks: recomputing it from this.tracks and
\* this.durations would give the same value.
ConsumersSeeCurrentMaxDuration ==
    [][ (loaded /\ last'.op \in {"onDrag", "seekTo"}) =>
            maxDuration = MaxEnd(tracks, durations, N)
      ]_vars

AppliedPosition ==
    /\ ~thrown'
    /\ \/ last'.op \in {"setTime", "seekTo"} /\ ~last'.wasPlaying
       \/ last'.op = "tick" /\ currentTime' # currentTime

\* Math.max(0, localTime) of track i at a position.
ClockTarget(i, position) ==
    IF position - tracks[i].startPosition < 0 THEN 0 ELSE position - tracks[i].startPosition

\* C26, as stated: updatePosition leaves a clock that is within 0.3 s of the
\* local time untouched and sets any other to max(0, localTime); afterwards
\* every clock is within 0.3 s of max(0, localTime).
ClocksWithinTolerance ==
    [][ AppliedPosition =>
            \A i \in Indexes :
                LET localTime == currentTime' - tracks[i].startPosition
                    target == ClockTarget(i, currentTime')
                IN  /\ MathAbs(audios[i].currentTime - localTime) <= precisionSeconds =>
                            audios'[i].currentTime = audios[i].currentTime
                    /\ MathAbs(audios'[i].currentTime - target) <= precisionSeconds
      ]_vars

\* C26, amended: the same for the tracks whose local time is not beyond their
\* duration; a clock set there takes the value max(0, localTime).
ClocksWithinToleranceUpToEnd ==
    [][ AppliedPosition =>
            \A i \in Indexes :
                LET localTime == currentTime' - tracks[i].startPosition
                    target == ClockTarget(i, currentTime')
                    off == MathAbs(audios[i].currentTime - localTime)
                IN  /\ off <= precisionSeconds => audios'[i].currentTime = audios[i].currentTime
                    /\ localTime <= durations[i] =>
                        /\ off > precisionSeconds => audios'[i].currentTime = target
                        /\ MathAbs(audios'[i].currentTime - target) <= precisionSeconds
      ]_vars

\* A seek while nothing plays has left alone a clock that is off its local
\* time, within the tolerance, and has set another clock.
ClockLeftWithinTolerance ==
    /\ last.op = "seekTo"
    /\ ~last.wasPlaying
    /\ ~thrown
    /\ \E i \in UserIndexes :
          /\ LocalTime(i) <= durations[i]
          /\ audios[i].currentTime # ClockTarget(i, currentTime)
    /\ \E j \in UserIndexes : LocalTime(j) > 0 /\ audios[j].currentTime = LocalTime(j)

\* The positions updatePosition is called with here: those of the seeks and
\* the current one.
AppliedPositions ==
    { Frac(k, SeekDen, maxDuration) : k \in SeekNums } \cup Times \cup {currentTime}

\* The calls and assignments, other than of a clock, that updatePosition makes
\* on the resources of an engine at a position.
Transitions(s, position) ==
    UNION { UpdateWrites(s.audios[i], s.tracks[i], s.durations[i], position, ~isPlaying(s))
                \ {"currentTime"} : i \in Indexes }

\* Whether updatePosition at a position notifies the cursor.
NotifiesCursor(s, position) ==
    \E k \in 1..Len(updatePosition(s, position).log) :
        updatePosition(s, position).log[k].call = "updateCursor"

\* C27: updatePosition notifies the cursor exactly when the position changes,
\* and called a second time at the same position it calls neither play() nor
\* pause(), assigns no muted flag, does not notify the cursor and leaves the
\* engine as the first call left it.
ApplyPositionIsIdempotent ==
    loaded =>
        \A position \in AppliedPositions :
            LET once == [updatePosition(Engine, position) EXCEPT !.log = << >>]
                twice == updatePosition(once, position)
            IN  /\ NotifiesCursor(Engine, position) <=> position # currentTime
                /\ Transitions(once, position) = {}
                /\ ~NotifiesCursor(once, position)
                /\ [twice EXCEPT !.log = << >>] = once

\* While tracks play, a seek has moved the position, notified the cursor,
\* paused a resource and muted another, and a second application at the same
\* position has nothing to do.
SeekAppliedOnce ==
    /\ last.op = "seekTo"
    /\ last.wasPlaying
    /\ ~thrown
    /\ last.currentTime # currentTime
    /\ \E k \in 1..Len(log) : log[k].call = "updateCursor"
    /\ \E i \in UserIndexes : audios[i].muted
    /\ \E i \in UserIndexes : audios[i].paused
    /\ Transitions(Engine, currentTime) = {}

\* C28: for a track with fades, the envelope has a point 'startCue' of volume 0
\* at the track's startCue whenever fadeInEnd and startCue are both set, and a
\* point 'endCue' of volume 0 at its endCue whenever fadeOutStart and endCue
\* are both set: at construction and after every change of a cue.
EnvelopeFollowsCues ==
    loaded =>
        \A i \in UserIndexes :
            tracks[i].envelope =>
                /\ (tracks[i].fadeInEnd # Absent /\ tracks[i].startCue # Absent) =>
                        Point("startCue", tracks[i].startCue, 0) \in envelopes[i]
                /\ (tracks[i].fadeOutStart # Absent /\ tracks[i].endCue # Absent) =>
                        Point("endCue", tracks[i].endCue, 0) \in envelopes[i]

\* C29: at most one clock loop is alive: at most one animation frame is
\* pending, and this.frameRequest is its handle.
AtMostOneClockLoop ==
    ~destroyed =>
        /\ Cardinality(scheduled) <= 1
        /\ scheduled # {} => frameRequest \in scheduled

\* C30: a drag, committed or rejected, leaves the global position as it is, a
\* committed drag leaves maxDuration as it is, and on a loaded engine no drag
\* and no replacement of a track makes maxDuration smaller.
DragKeepsPositionAndMaxDuration ==
    [][ /\ last'.op = "onDrag" =>
            /\ currentTime' = currentTime
            /\ Committed(log') => maxDuration' = maxDuration
        /\ (loaded /\ last'.op \in {"onDrag", "addTrack", "addTrackLoaded"} /\ ~thrown') =>
            maxDuration' >= maxDuration
      ]_vars

\* C31: seekTo and setTime preserve the play state: some resource is playing
\* when the call returns exactly if some resource was playing when it was made.
SeekPreservesPlayState ==
    (last.op \in {"seekTo", "setTime"} /\ ~thrown) =>
        (isPlaying(Engine) <=> last.wasPlaying)

\* During playback a seek has left the position where no user track is in
\* range, and playback is still active.
SeekKeptPlaying ==
    /\ last.op = "setTime"
    /\ last.wasPlaying
    /\ ~thrown
    /\ isPlaying(Engine)
    /\ \A i \in UserIndexes : ~InRange(i)

\* C32: when pause() returns every resource is paused and the global position
\* is the one before the call; while no resource plays, only play(), seekTo()
\* and setTime() can end that, and a tick changes neither the global position
\* nor any resource.
PauseHoldsUntilResumed ==
    [][ /\ last'.op = "pause" =>
            /\ \A i \in Defined(audios') : audios'[i].paused
            /\ currentTime' = currentTime
        /\ (~isPlaying(Engine) /\ last'.op \notin {"play", "seekTo", "setTime"}) =>
            \A i \in Defined(audios') : audios'[i].paused
        /\ (~isPlaying(Engine) /\ last'.op = "tick") =>
            UNCHANGED << currentTime, audios >>
      ]_vars

\* Playback has moved the position and was paused with a user track in range;
\* a tick of the clock loop, which is still alive, has run since.
TickedWhilePaused ==
    /\ last.op = "tick"
    /\ loaded
    /\ ~isPlaying(Engine)
    /\ currentTime > 0
    /\ \E i \in UserIndexes : InRange(i) /\ audios[i].currentTime > 0

\* C33: after the load every resource has the playback rate of the first one,
\* which is what getAudioRate() returns.
ResourcesShareOneRate ==
    (loaded /\ ~destroyed) =>
        \A i \in Defined(audios) : audios[i].playbackRate = audios[1].playbackRate

\* C34: when every load of addTrack has completed, the resource and the
\* duration at each index are those of the track stored at that index.
ResourceBelongsToStoredTrack ==
    (loaded /\ last.op = "addTrackLoaded" /\ ~thrown /\ inFlight = {}) =>
        \A i \in UserIndexes :
            /\ audios[i].src = tracks[i].url
            /\ durations[i] = MediaDuration(tracks[i].url)

\* C35: a replacement issued before the initial load completed is in place
\* once its load and the initial load have both completed, and neither of
\* them raised an error.
EarlyReplacementInstalled ==
    (inFlight = {} /\ last.op \in {"load", "addTrackLoaded"}) =>
        /\ ~thrown
        /\ loaded => \A i \in UserIndexes :
                         /\ audios[i].src = tracks[i].url
                         /\ durations[i] = MediaDuration(tracks[i].url)

====
